---- MODULE Spec2Model ----
(***************************************************************************)
(* Model of core/services/irita_subscriber.go: the IritaServiceTracker     *)
(* lifecycle (Start, Stop, AddJob, RemoveJob), the Service registry of     *)
(* subscriptions, the per-initiator Subscribe goroutine and the pure       *)
(* event matching of GetServiceResquest.                                   *)
(***************************************************************************)
EXTENDS Integers, Sequences, FiniteSets, TLC

\* ---------------------------------------------------------------- bounds
\* the whole system: goroutines that may be spawned, done channels that
\* Service.Start may make, and the last instant of the clock, over a run
MaxWorkers == 2
MaxEpoch == 1
MaxTime == 2
\* the same for the lifecycle with two concurrent API callers
TrackerWorkers == 2
TrackerEpochs == 2
\* ... for a job added twice
TwiceWorkers == 4
\* ... and for the activity window
WindowWorkers == 1
\* event records per batch in the matching specification
MaxRecords == 2

\* ---------------------------------------------------------------- data
Jobs == {"j1", "j2"}
NoSub == 0
NoJob == "none"
NoTime == -1
NoRequest == "-"
\* the zero service.QueryServiceRequestResponse a failed lookup leaves behind
ZeroRequest == ""
\* a JSON array element that is not a string
NumTok == "<num>"

\* models.Initiator values; only the irita-log ones concern the tracker
Initiator(t, prov, svc) == [type |-> t, IritaServiceProvider |-> prov, IritaServiceName |-> svc]

\* models.JobSpec values handed to AddJob / enumerated by store.Jobs
JobSpec(j) ==
    IF j = "j1"
    THEN [ID |-> "j1", StartAt |-> 1, EndAt |-> 1,
          Initiators |-> << Initiator("iritalog", "p1", "svcA"),
                            Initiator("web", "", "") >>]
    ELSE [ID |-> "j2", StartAt |-> NoTime, EndAt |-> 0,
          Initiators |-> << Initiator("iritalog", "p1", "svcA"),
                            Initiator("iritalog", "p2", "svcA") >>]

\* JobSpec.InitiatorsFor(models.InitiatorIritaLog)
InitiatorsFor(job) == SelectSeq(job.Initiators, LAMBDA i : i.type = "iritalog")

\* JobSpec.Started(now): an unset StartAt means started
Started(job, t) == job.StartAt = NoTime \/ t >= job.StartAt

\* JobSpec.Ended(now): an unset EndAt means never ended
Ended(job, t) == job.EndAt # NoTime /\ t > job.EndAt

\* ------------------------------------------------- GetServiceResquest
\* types.AccAddressFromBech32 (error dropped) followed by AccAddress.String:
\* a well-formed address prints back as itself, anything else parses to the
\* empty address, which prints as the empty string
ValidBech32 == {"p1", "p2"}
AccAddressFromBech32(s) == IF s \in ValidBech32 THEN s ELSE ""
AccString(acc) == acc

\* json.Unmarshal([]byte(reqIDsStr), &idsTemp) with the error dropped: a
\* payload that is not valid JSON leaves idsTemp nil; in a valid array an
\* element that is not a string leaves the zero string in its slot
JsonUnmarshal(payload) ==
    IF ~payload.valid THEN << >>
    ELSE [k \in 1..Len(payload.elems) |->
            IF payload.elems[k] = NumTok THEN "" ELSE payload.elems[k]]

\* events.Filter("new_batch_request_provider")
Filter(events, t) == SelectSeq(events, LAMBDA e : e.type = t)

RECURSIVE CollectIDs(_, _, _)
\* lines 214-224: the ids of the matching records, appended in order
CollectIDs(evs, serviceName, provider) ==
    IF evs = << >> THEN << >>
    ELSE LET e == Head(evs)
             rest == CollectIDs(Tail(evs), serviceName, provider)
         IN IF e.service_name = serviceName /\ e.provider = AccString(provider)
            THEN JsonUnmarshal(e.requests) \o rest
            ELSE rest

MatchIDs(events, serviceName, provider) ==
    CollectIDs(Filter(events, "new_batch_request_provider"), serviceName, provider)

\* lines 226-232: one QueryServiceRequest per id, error dropped, the
\* response appended whatever the outcome
QueryServiceRequest(reqID, failing) == IF reqID \in failing THEN ZeroRequest ELSE reqID

GetServiceResquest(events, serviceName, provider, failing) ==
    LET ids == MatchIDs(events, serviceName, provider)
    IN [k \in 1..Len(ids) |-> QueryServiceRequest(ids[k], failing)]

\* ---------------------------------------------------------------- state
VARIABLES
    started,          \* IritaServiceTracker.started
    startedMutex,     \* IritaServiceTracker.startedMutex: writer held, readers
    done,             \* Service.done: 0 is the nil channel, k the k-th made
    closed,           \* for each done channel of the run: it has been closed
    crashed,          \* "no", or the panic that ended the process
    jobSubscriptions, \* Service.jobSubscriptions: job id -> subscription
    jobsMutex,        \* Service.jobsMutex is held
    gauge,            \* numberJobSubscriptions
    now,              \* the clock time.Now() reads
    storedJobs,       \* the irita-log jobs store.Jobs enumerates
    memory,           \* store.AddToMemory: the (job, request) pairs stashed
    cpc, cjob, csub,  \* API callers: position, job argument, RemoveJob's sub
    ret,              \* what the step just taken returned to its API caller
    wpc, wjob, wini, wseen, wnow, wreq,  \* Subscribe goroutines
    unsub,            \* Unsubscribe calls issued on each subscription
    cb,               \* per subscription: requests its callback still has to send
    mpc, mEvents, mInitiator, mFailing,  \* one GetServiceResquest call,
    mIds, mOut        \* its local ids and its result

vars == << started, startedMutex, done, closed, crashed, jobSubscriptions,
           jobsMutex, gauge, now, storedJobs, memory, cpc, cjob, csub, ret,
           wpc, wjob, wini, wseen, wnow, wreq, unsub, cb,
           mpc, mEvents, mInitiator, mFailing, mIds, mOut >>

trackerVars == << started, startedMutex, done, closed >>
registryVars == << jobSubscriptions, jobsMutex, gauge >>
callerVars == << cpc, cjob, csub >>
workerVars == << wpc, wjob, wini, wseen, wnow, wreq >>
envVars == << now, storedJobs >>
matchVars == << mpc, mEvents, mInitiator, mFailing, mIds, mOut >>

\* the call that returned, its result and its job argument
Returned(op, res, j) == [op |-> op, res |-> res, job |-> j]
NoReturn == Returned("none", "none", NoJob)

\* the API callers and the pool of goroutines of a run
Callers == DOMAIN cpc
Workers == DOMAIN wpc

\* the initiator a goroutine was spawned for
WorkerInitiator(w) == InitiatorsFor(JobSpec(wjob[w]))[wini[w]]

\* goroutines spawned so far; they are numbered in spawn order
Spawned == {w \in Workers : wpc[w] # "free"}

\* a subscription exists from SubscribeNewBlock's return on
Subscribed(w) == wpc[w] \notin {"free", "Subscribe159"}

\* ... and delivers blocks until Unsubscribe is called on it
Live(w) == Subscribed(w) /\ unsub[w] = "never"

RegistrySize(reg) == Cardinality({j \in Jobs : reg[j] # NoSub})

\* the (job, initiator index) pairs Service.AddJob spawns a goroutine for
SpawnList(job) == [k \in 1..Len(InitiatorsFor(job)) |-> << job.ID, k >>]

\* the order in which store.Jobs visits the stored jobs
JobOrder == << "j1", "j2" >>

RECURSIVE Flatten(_)
Flatten(ss) == IF ss = << >> THEN << >> ELSE Head(ss) \o Flatten(Tail(ss))

\* ... for each job store.Jobs visits
SpawnListAll(js) ==
    LET visited == SelectSeq(JobOrder, LAMBDA j : j \in js)
    IN Flatten([k \in 1..Len(visited) |-> SpawnList(JobSpec(visited[k]))])

\* the pool has room for the goroutines of list
Room(list) == Cardinality(Spawned) + Len(list) <= Cardinality(Workers)

\* go s.Subscribe(initiator, job), once per entry of list
Spawn(list, epoch) ==
    LET n == Cardinality(Spawned)
        new == (n + 1)..(n + Len(list))
    IN /\ wpc' = [w \in Workers |-> IF w \in new THEN "Subscribe159" ELSE wpc[w]]
       /\ wjob' = [w \in Workers |-> IF w \in new THEN list[w - n][1] ELSE wjob[w]]
       /\ wini' = [w \in Workers |-> IF w \in new THEN list[w - n][2] ELSE wini[w]]
       /\ wseen' = [w \in Workers |-> IF w \in new THEN epoch ELSE wseen[w]]
       /\ UNCHANGED << wnow, wreq >>

Alive == crashed = "no"

\* a caller back from its call
Return(c) ==
    /\ cpc' = [cpc EXCEPT ![c] = "idle"]
    /\ cjob' = [cjob EXCEPT ![c] = "j1"]
    /\ csub' = [csub EXCEPT ![c] = NoSub]

\* ------------------------------------------------ IritaServiceTracker
\* Start, line 47: startedMutex.Lock()
StartLock(c) ==
    /\ Alive /\ cpc[c] = "idle"
    /\ ~startedMutex.w /\ startedMutex.r = 0
    /\ started \/ (done + 1 \in DOMAIN closed /\ Room(SpawnListAll(storedJobs)))
    /\ startedMutex' = [startedMutex EXCEPT !.w = TRUE]
    /\ cpc' = [cpc EXCEPT ![c] = "Start49"]
    /\ ret' = NoReturn
    /\ UNCHANGED << started, done, closed, crashed, registryVars, envVars,
                    memory, cjob, csub, workerVars, unsub, cb, matchVars >>

\* a Start that does not look at the started flag
StartGuardNever == FALSE

\* the test of line 49
StartGuard == started

\* Start, lines 49-55: the started check, then Service.Start makes a new done
StartCheck(c) ==
    /\ Alive /\ cpc[c] = "Start49"
    /\ IF StartGuard
       THEN /\ ret' = Returned("Start", "AlreadyStarted", NoJob)
            /\ Return(c)
            /\ startedMutex' = [startedMutex EXCEPT !.w = FALSE]
            /\ UNCHANGED done
       ELSE /\ done' = done + 1
            /\ cpc' = [cpc EXCEPT ![c] = "Start57"]
            /\ ret' = NoReturn
            /\ UNCHANGED << startedMutex, cjob, csub >>
    /\ UNCHANGED << started, closed, crashed, registryVars, envVars, memory,
                    workerVars, unsub, cb, matchVars >>

\* Start, lines 57-65: started = true, then store.Jobs visits each stored job
\* with addJob, or fails before the first one; the deferred Unlock
StartFinish(c) ==
    /\ Alive /\ cpc[c] = "Start57"
    /\ started' = TRUE
    /\ \/ /\ Spawn(SpawnListAll(storedJobs), done)
          /\ ret' = Returned("Start", "nil", NoJob)
       \/ /\ ret' = Returned("Start", "StoreErr", NoJob)
          /\ UNCHANGED workerVars
    /\ Return(c)
    /\ startedMutex' = [startedMutex EXCEPT !.w = FALSE]
    /\ UNCHANGED << done, closed, crashed, registryVars, envVars, memory,
                    unsub, cb, matchVars >>

\* Stop, line 69: startedMutex.Lock()
StopLock(c) ==
    /\ Alive /\ cpc[c] = "idle"
    /\ ~startedMutex.w /\ startedMutex.r = 0
    /\ startedMutex' = [startedMutex EXCEPT !.w = TRUE]
    /\ cpc' = [cpc EXCEPT ![c] = "Stop71"]
    /\ ret' = NoReturn
    /\ UNCHANGED << started, done, closed, crashed, registryVars, envVars,
                    memory, cjob, csub, workerVars, unsub, cb, matchVars >>

\* Service.Stop, line 109: close(s.done) panics on a nil or closed channel
ServiceStop ==
    IF done = 0 \/ closed[done]
    THEN crashed' = "close" /\ UNCHANGED closed
    ELSE closed' = [closed EXCEPT ![done] = TRUE] /\ UNCHANGED crashed

\* a Stop that does not look at the started flag
StopGuardAlways == TRUE

\* the test of line 71
StopGuard == started

\* Stop, lines 71-75, and the deferred Unlock
StopBody(c) ==
    /\ Alive /\ cpc[c] = "Stop71"
    /\ IF StopGuard
       THEN ServiceStop /\ started' = FALSE
       ELSE UNCHANGED << started, closed, crashed >>
    /\ ret' = Returned("Stop", IF StopGuard THEN "stopped" ELSE "noop", NoJob)
    /\ Return(c)
    /\ startedMutex' = [startedMutex EXCEPT !.w = FALSE]
    /\ UNCHANGED << done, registryVars, envVars, memory,
                    workerVars, unsub, cb, matchVars >>

\* the goroutines that AddJob calls now under the read lock are about to spawn
PendingSpawn ==
    LET cs == SelectSeq(<< "c1", "c2" >>,
                        LAMBDA c : c \in Callers /\ cpc[c] = "AddJob84")
    IN Flatten([k \in 1..Len(cs) |-> SpawnList(JobSpec(cjob[cs[k]]))])

\* AddJob, line 82: startedMutex.RLock()
AddJobRLock(c, j) ==
    /\ Alive /\ cpc[c] = "idle"
    /\ ~startedMutex.w
    /\ ~started \/ Room(PendingSpawn \o SpawnList(JobSpec(j)))
    /\ startedMutex' = [startedMutex EXCEPT !.r = @ + 1]
    /\ cpc' = [cpc EXCEPT ![c] = "AddJob84"]
    /\ cjob' = [cjob EXCEPT ![c] = j]
    /\ ret' = NoReturn
    /\ UNCHANGED << started, done, closed, crashed, registryVars, envVars,
                    memory, csub, workerVars, unsub, cb, matchVars >>

\* an AddJob that does not look at the started flag
AddJobGuardNever == FALSE

\* the test of line 84
AddJobGuard == ~started

\* AddJob, lines 84-87 with Service.AddJob, lines 113-115, and the deferred RUnlock
AddJobBody(c) ==
    /\ Alive /\ cpc[c] = "AddJob84"
    /\ IF AddJobGuard
       THEN /\ UNCHANGED workerVars
            /\ ret' = Returned("AddJob", "noop", cjob[c])
       ELSE /\ Spawn(SpawnList(JobSpec(cjob[c])), done)
            /\ ret' = Returned("AddJob", "added", cjob[c])
    /\ Return(c)
    /\ startedMutex' = [startedMutex EXCEPT !.r = @ - 1]
    /\ UNCHANGED << started, done, closed, crashed, registryVars, envVars,
                    memory, unsub, cb, matchVars >>

\* ------------------------------------------------------------ Service
\* RemoveJob, line 119: jobsMutex.Lock()
RemoveJobLock(c, j) ==
    /\ Alive /\ cpc[c] = "idle"
    /\ ~jobsMutex
    /\ jobsMutex' = TRUE
    /\ cpc' = [cpc EXCEPT ![c] = "RemoveJob120"]
    /\ cjob' = [cjob EXCEPT ![c] = j]
    /\ ret' = NoReturn
    /\ UNCHANGED << trackerVars, crashed, jobSubscriptions, gauge, envVars,
                    memory, csub, workerVars, unsub, cb, matchVars >>

\* an Unlock that leaves the mutex as it is
JobsMutexStaysLocked(m) == m

\* s.jobsMutex.Unlock(), line 123 and the deferred one of line 134
JobsMutexUnlock(m) == FALSE

\* the registry after delete(s.jobSubscriptions, ID.String()), line 121
RegistryDelete(reg, j) == [reg EXCEPT ![j] = NoSub]

\* RemoveJob, lines 120-123: look up, delete, set the gauge, Unlock
RemoveJobBody(c) ==
    /\ Alive /\ cpc[c] = "RemoveJob120"
    /\ csub' = [csub EXCEPT ![c] = jobSubscriptions[cjob[c]]]
    /\ jobSubscriptions' = RegistryDelete(jobSubscriptions, cjob[c])
    /\ gauge' = RegistrySize(jobSubscriptions')
    /\ jobsMutex' = JobsMutexUnlock(jobsMutex)
    /\ cpc' = [cpc EXCEPT ![c] = "RemoveJob125"]
    /\ ret' = NoReturn
    /\ UNCHANGED << trackerVars, crashed, envVars, memory,
                    cjob, workerVars, unsub, cb, matchVars >>

\* Client.Unsubscribe(sub): one more call on the subscription, counted as
\* never, once, again (twice or more)
Unsubscribe(sub) ==
    unsub' = [unsub EXCEPT ![sub] = IF @ = "never" THEN "once" ELSE "again"]

\* a RemoveJob that does not test `ok`
RemoveFoundAlways(sub) == TRUE

\* the outcome of RemoveJob's `ok` test, line 125
RemoveFound(sub) == sub # NoSub

\* RemoveJob, lines 125-129: not found, or Unsubscribe and nil
RemoveJobReturn(c) ==
    /\ Alive /\ cpc[c] = "RemoveJob125"
    /\ IF RemoveFound(csub[c])
       THEN /\ Unsubscribe(csub[c])
            /\ ret' = Returned("RemoveJob", "nil", cjob[c])
       ELSE /\ UNCHANGED unsub
            /\ ret' = Returned("RemoveJob", "NotFound", cjob[c])
    /\ Return(c)
    /\ UNCHANGED << trackerVars, crashed, registryVars, envVars, memory,
                    workerVars, cb, matchVars >>

\* Subscribe, lines 139-173: SubscribeNewBlock returns a subscription, or an
\* error on which the goroutine panics
SubscribeOpen(w) ==
    /\ Alive /\ wpc[w] = "Subscribe159"
    /\ \/ /\ wpc' = [wpc EXCEPT ![w] = "addSubscription133"]
          /\ UNCHANGED crashed
       \/ /\ crashed' = "subscribe"
          /\ UNCHANGED wpc
    /\ ret' = NoReturn
    /\ UNCHANGED << trackerVars, registryVars, envVars, memory, callerVars,
                    wjob, wini, wseen, wnow, wreq, unsub, cb, matchVars >>

\* addSubscription, line 133: jobsMutex.Lock()
AddSubscriptionLock(w) ==
    /\ Alive /\ wpc[w] = "addSubscription133"
    /\ ~jobsMutex
    /\ jobsMutex' = TRUE
    /\ wpc' = [wpc EXCEPT ![w] = "addSubscription135"]
    /\ ret' = NoReturn
    /\ UNCHANGED << trackerVars, crashed, jobSubscriptions, gauge, envVars,
                    memory, callerVars, wjob, wini, wseen, wnow, wreq, unsub, cb,
                    matchVars >>

\* the registry after s.jobSubscriptions[jobID.String()] = sub, line 135
RegistryPut(reg, j, sub) == [reg EXCEPT ![j] = sub]

\* addSubscription, line 135 and the deferred Unlock; the gauge is not set
AddSubscription(w) ==
    /\ Alive /\ wpc[w] = "addSubscription135"
    /\ jobSubscriptions' = RegistryPut(jobSubscriptions, wjob[w], w)
    /\ jobsMutex' = JobsMutexUnlock(jobsMutex)
    /\ wpc' = [wpc EXCEPT ![w] = "select"]
    /\ ret' = NoReturn
    /\ UNCHANGED << trackerVars, crashed, gauge, envVars, memory, callerVars,
                    wjob, wini, wseen, wnow, wreq, unsub, cb, matchVars >>

\* a window test that forgets job.Ended
OutsideWindowNotStarted(job, t) == ~Started(job, t)

\* the test of line 181
OutsideWindow(job, t) == ~Started(job, t) \/ Ended(job, t)

\* Subscribe, lines 179-183: a request is received from ch, the clock is
\* read, and the goroutine returns when the job is outside its window
Receive(w) ==
    /\ Alive /\ wpc[w] = "select"
    /\ cb[w] # << >>
    /\ cb' = [cb EXCEPT ![w] = Tail(@)]
    /\ IF OutsideWindow(JobSpec(wjob[w]), now)
       THEN /\ wpc' = [wpc EXCEPT ![w] = "returned"]
            /\ UNCHANGED << wnow, wreq >>
       ELSE /\ wpc' = [wpc EXCEPT ![w] = "Create185"]
            /\ wnow' = [wnow EXCEPT ![w] = now]
            /\ wreq' = [wreq EXCEPT ![w] = Head(cb[w])]
    /\ ret' = NoReturn
    /\ UNCHANGED << trackerVars, crashed, registryVars, envVars, memory,
                    callerVars, wjob, wini, wseen, unsub, matchVars >>

\* a store that drops what it is given
AddToMemoryNothing(mem, job, req) == mem

\* store.AddToMemory, lines 197-200: the request is kept for the run of job
AddToMemory(mem, job, req) == mem \cup {<< job, req >>}

\* Subscribe, lines 185-200: RunManager.Create returns a run, which is put in
\* the memory store with the request, or an error, on which the goroutine
\* returns
CreateReturn(w) ==
    /\ Alive /\ wpc[w] = "Create185"
    /\ \/ /\ memory' = AddToMemory(memory, wjob[w], wreq[w])
          /\ wpc' = [wpc EXCEPT ![w] = "select"]
       \/ /\ wpc' = [wpc EXCEPT ![w] = "returned"]
          /\ UNCHANGED memory
    /\ wnow' = [wnow EXCEPT ![w] = 0]
    /\ wreq' = [wreq EXCEPT ![w] = NoRequest]
    /\ ret' = NoReturn
    /\ UNCHANGED << trackerVars, crashed, registryVars, envVars,
                    callerVars, wjob, wini, wseen, unsub, cb, matchVars >>

\* Subscribe, lines 202-204: s.done, read without synchronisation, is one of
\* the channels made since the goroutine last looked; when that one is
\* closed the goroutine unsubscribes and goes round the loop again
DoneBranch(w) ==
    /\ Alive /\ wpc[w] = "select"
    /\ \E e \in wseen[w]..done :
          /\ e # 0 /\ closed[e]
          /\ wseen' = [wseen EXCEPT ![w] = e]
    /\ Unsubscribe(w)
    /\ ret' = NoReturn
    /\ UNCHANGED << trackerVars, crashed, registryVars, envVars, memory,
                    callerVars, wpc, wjob, wini, wnow, wreq, cb, matchVars >>

\* -------------------------------------------------------- environment
\* the event batches the event source delivers
Event(t, svc, prov, valid, elems) ==
    [type |-> t, service_name |-> svc, provider |-> prov,
     requests |-> [valid |-> valid, elems |-> elems]]

Batches ==
    { << Event("new_batch_request_provider", "svcA", "p1", TRUE, << "r1" >>),
         Event("new_batch_request_provider", "svcA", "p2", TRUE, << "r1" >>) >>,
      << Event("new_batch_request_provider", "svcA", "p1", TRUE, << "r1" >>),
         Event("new_batch_request_provider", "svcA", "p1", TRUE, << "r1" >>) >> }

\* lines 161-169: the callback of a live subscription is invoked with a new
\* block; it sends each request GetServiceResquest returns into ch
NewBlock(w) ==
    /\ Alive /\ Live(w)
    /\ cb[w] = << >>
    /\ \E b \in Batches :
          cb' = [cb EXCEPT ![w] =
                   GetServiceResquest(b, WorkerInitiator(w).IritaServiceName,
                       AccAddressFromBech32(WorkerInitiator(w).IritaServiceProvider),
                       {})]
    /\ cb'[w] # << >>
    /\ ret' = NoReturn
    /\ UNCHANGED << trackerVars, crashed, registryVars, envVars, memory,
                    callerVars, workerVars, unsub, matchVars >>

\* time passes
Tick ==
    /\ Alive /\ now < MaxTime
    /\ now' = now + 1
    /\ ret' = NoReturn
    /\ UNCHANGED << trackerVars, crashed, registryVars, storedJobs, memory,
                    callerVars, workerVars, unsub, cb, matchVars >>

\* ------------------------------------------------------ specification
InitSystem(callers, pool, epochs) ==
    /\ started = FALSE
    /\ startedMutex = [w |-> FALSE, r |-> 0]
    /\ done = 0
    /\ closed = [e \in 1..epochs |-> FALSE]
    /\ crashed = "no"
    /\ jobSubscriptions = [j \in Jobs |-> NoSub]
    /\ jobsMutex = FALSE
    /\ gauge = 0
    /\ now = 0
    /\ memory = {}
    /\ cpc = [c \in callers |-> "idle"]
    /\ cjob = [c \in callers |-> "j1"]
    /\ csub = [c \in callers |-> NoSub]
    /\ ret = NoReturn
    /\ wpc = [w \in 1..pool |-> "free"]
    /\ wjob = [w \in 1..pool |-> "j1"]
    /\ wini = [w \in 1..pool |-> 1]
    /\ wseen = [w \in 1..pool |-> 0]
    /\ wnow = [w \in 1..pool |-> 0]
    /\ wreq = [w \in 1..pool |-> NoRequest]
    /\ unsub = [w \in 1..pool |-> "never"]
    /\ cb = [w \in 1..pool |-> << >>]

NoMatch ==
    /\ mpc = "off"
    /\ mEvents = << >>
    /\ mInitiator = Initiator("iritalog", "p1", "svcA")
    /\ mFailing = {}
    /\ mIds = << >>
    /\ mOut = << >>

Init ==
    /\ InitSystem({"c1"}, MaxWorkers, MaxEpoch)
    /\ storedJobs \in {{}, {"j1"}}
    /\ NoMatch

Next ==
    \/ \E c \in Callers : StartLock(c)
    \/ \E c \in Callers : StartCheck(c)
    \/ \E c \in Callers : StartFinish(c)
    \/ \E c \in Callers : StopLock(c)
    \/ \E c \in Callers : StopBody(c)
    \/ \E c \in Callers, j \in Jobs : AddJobRLock(c, j)
    \/ \E c \in Callers : AddJobBody(c)
    \/ \E c \in Callers, j \in Jobs : RemoveJobLock(c, j)
    \/ \E c \in Callers : RemoveJobBody(c)
    \/ \E c \in Callers : RemoveJobReturn(c)
    \/ \E w \in Workers : SubscribeOpen(w)
    \/ \E w \in Workers : AddSubscriptionLock(w)
    \/ \E w \in Workers : AddSubscription(w)
    \/ \E w \in Workers : Receive(w)
    \/ \E w \in Workers : CreateReturn(w)
    \/ \E w \in Workers : DoneBranch(w)
    \/ \E w \in Workers : NewBlock(w)
    \/ Tick

Spec == Init /\ [][Next]_vars

\* ----------------- the lifecycle: Start, Stop, AddJob and the goroutines
\* up to their loop, without RemoveJob and without deliveries
NextTracker ==
    \/ \E c \in Callers : StartLock(c)
    \/ \E c \in Callers : StartCheck(c)
    \/ \E c \in Callers : StartFinish(c)
    \/ \E c \in Callers : StopLock(c)
    \/ \E c \in Callers : StopBody(c)
    \/ \E c \in Callers, j \in Jobs : AddJobRLock(c, j)
    \/ \E c \in Callers : AddJobBody(c)
    \/ \E w \in Workers : SubscribeOpen(w)
    \/ \E w \in Workers : AddSubscriptionLock(w)
    \/ \E w \in Workers : AddSubscription(w)
    \/ \E w \in Workers : DoneBranch(w)

\* two API callers at once
InitTracker ==
    /\ InitSystem({"c1", "c2"}, TrackerWorkers, TrackerEpochs)
    /\ storedJobs \in {{}, {"j1"}}
    /\ NoMatch

SpecTracker == InitTracker /\ [][NextTracker]_vars

\* room for a job of two initiators to be added twice
InitTwice ==
    /\ InitSystem({"c1"}, TwiceWorkers, MaxEpoch)
    /\ storedJobs = {}
    /\ NoMatch

SpecTwice == InitTwice /\ [][NextTracker]_vars

\* ------------------------------- the goroutines of a tracker never stopped
NextWindow ==
    \/ \E c \in Callers : StartLock(c)
    \/ \E c \in Callers : StartCheck(c)
    \/ \E c \in Callers : StartFinish(c)
    \/ \E c \in Callers, j \in Jobs : AddJobRLock(c, j)
    \/ \E c \in Callers : AddJobBody(c)
    \/ \E c \in Callers, j \in Jobs : RemoveJobLock(c, j)
    \/ \E c \in Callers : RemoveJobBody(c)
    \/ \E c \in Callers : RemoveJobReturn(c)
    \/ \E w \in Workers : SubscribeOpen(w)
    \/ \E w \in Workers : AddSubscriptionLock(w)
    \/ \E w \in Workers : AddSubscription(w)
    \/ \E w \in Workers : Receive(w)
    \/ \E w \in Workers : CreateReturn(w)
    \/ \E w \in Workers : NewBlock(w)
    \/ Tick

InitWindow ==
    /\ InitSystem({"c1"}, WindowWorkers, MaxEpoch)
    /\ storedJobs \in {{}, {"j1"}}
    /\ NoMatch

SpecWindow == InitWindow /\ [][NextWindow]_vars

\* the scheduler runs a goroutine that can receive from its channel, and a
\* RunManager.Create that was called comes back
FairWindow ==
    \A w \in 1..WindowWorkers :
        WF_vars(Receive(w)) /\ WF_vars(CreateReturn(w))

SpecWindowFair == SpecWindow /\ FairWindow

\* --------------------------------- GetServiceResquest on its own inputs
Payloads ==
    { [valid |-> TRUE, elems |-> << "r1" >>],
      [valid |-> TRUE, elems |-> << "r1", "r2" >>],
      [valid |-> TRUE, elems |-> << "r1", NumTok >>],
      [valid |-> FALSE, elems |-> << "r2" >>] }

EventUniverse ==
    { Event(t, svc, prov, p.valid, p.elems) :
        t \in {"new_batch_request_provider", "new_batch_request"},
        svc \in {"svcA", "svcB"}, prov \in {"p1", ""}, p \in Payloads }

RECURSIVE SeqsUpTo(_, _)
SeqsUpTo(S, n) ==
    IF n = 0 THEN {<< >>}
    ELSE LET shorter == SeqsUpTo(S, n - 1)
         IN shorter \cup {Append(s, x) : s \in shorter, x \in S}

InitMatch ==
    /\ InitSystem({"c1"}, MaxWorkers, MaxEpoch)
    /\ storedJobs = {}
    /\ mpc = "call"
    /\ mEvents \in SeqsUpTo(EventUniverse, MaxRecords)
    /\ mInitiator \in {Initiator("iritalog", "p1", "svcA"),
                       Initiator("iritalog", "p1", "svcB"),
                       Initiator("iritalog", "garbage", "svcA")}
    /\ mFailing \in {{}, {"r2"}}
    /\ mIds = << >>
    /\ mOut = << >>

\* one call of GetServiceResquest as the callback of lines 161-166 makes it
MatchCall ==
    /\ mpc = "call"
    /\ mIds' = MatchIDs(mEvents, mInitiator.IritaServiceName,
                   AccAddressFromBech32(mInitiator.IritaServiceProvider))
    /\ mOut' = GetServiceResquest(mEvents, mInitiator.IritaServiceName,
                   AccAddressFromBech32(mInitiator.IritaServiceProvider), mFailing)
    /\ mpc' = "returned"
    /\ UNCHANGED << trackerVars, crashed, registryVars, envVars, memory,
                    callerVars, ret, workerVars, unsub, cb, mEvents, mInitiator,
                    mFailing >>

NextMatch == MatchCall

SpecMatch == InitMatch /\ [][NextMatch]_vars

\* ================================================================ claims
\* the job has started and has not ended at t, as the activity window of the
\* job reads
ActiveAt(job, t) ==
    /\ job.StartAt = NoTime \/ job.StartAt <= t
    /\ job.EndAt = NoTime \/ t <= job.EndAt

\* the step takes a request out of the channel of goroutine w
Consumes(w) == Len(cb'[w]) < Len(cb[w])

\* the step delivers a new block into the channel of goroutine w
Delivers(w) == cb[w] = << >> /\ cb'[w] # << >>

\* C1: a goroutine starts RunManager.Create only on consuming a request at an
\* instant at which its job has started and has not ended; on consuming a
\* request at any other instant it returns in that very step, stashing
\* nothing, and a goroutine that has returned consumes no request again.
C1_NoRunOutsideWindow ==
    [][\A w \in Workers :
          /\ (wpc'[w] = "Create185" /\ wpc[w] # "Create185")
                => (Consumes(w) /\ ActiveAt(JobSpec(wjob[w]), now))
          /\ (Consumes(w) /\ ~ActiveAt(JobSpec(wjob[w]), now))
                => (wpc'[w] = "returned" /\ memory' = memory)
          /\ wpc[w] = "returned"
                => (wpc'[w] = "returned" /\ ~Consumes(w))]_vars

\* a goroutine of j1 has returned before j1 started, a request of the same
\* or a later block still waiting to be sent to it
C1_Witness ==
    \E w \in Workers :
        /\ wpc[w] = "returned" /\ wjob[w] = "j1" /\ now = 0
        /\ cb[w] # << >>

\* C2: in every state the size of the registry is the number of job ids that
\* have a subscription that is open and not unsubscribed.
C2_RegistrySizeIsLiveJobs ==
    RegistrySize(jobSubscriptions)
        = Cardinality({j \in Jobs : \E w \in Workers : wjob[w] = j /\ Live(w)})

\* job j has been added twice: each of its initiators has two goroutines
AddedTwice(j) ==
    \A k \in 1..Len(InitiatorsFor(JobSpec(j))) :
        Cardinality({w \in Workers : wpc[w] # "free" /\ wjob[w] = j /\ wini[w] = k}) = 2

\* every goroutine spawned for j is past addSubscription
AllRegistered(j) ==
    \A w \in Workers :
        (wpc[w] # "free" /\ wjob[w] = j) => wpc[w] \in {"select", "Create185", "returned"}

\* C3: once a job has been added twice and all its goroutines have
\* registered, the registry holds exactly one subscription for each
\* (job, initiator) pair of the job.
C3_OneHandlePerInterest ==
    \A j \in Jobs :
        (AddedTwice(j) /\ AllRegistered(j))
            => \A k \in 1..Len(InitiatorsFor(JobSpec(j))) :
                  Cardinality({w \in Workers : /\ wjob[w] = j /\ wini[w] = k
                                               /\ jobSubscriptions[j] = w}) = 1

\* C4: once RemoveJob(J) has returned nil, no new block is delivered into the
\* channel of a subscription of J (stated of the step that follows the
\* return).
C4_NoDeliveryAfterRemove ==
    [][(ret.op = "RemoveJob" /\ ret.res = "nil")
          => \A w \in Workers :
                (wjob[w] = ret.job /\ Subscribed(w)) => ~Delivers(w)]_vars

\* C5: a RemoveJob that finds no entry for its job leaves the registry as it
\* was, calls Unsubscribe on nothing and returns the not-found error.
C5_RemoveUnknownJob ==
    [][\A c \in Callers :
          /\ (/\ cpc[c] = "RemoveJob120" /\ cpc'[c] # "RemoveJob120"
              /\ jobSubscriptions[cjob[c]] = NoSub)
                => /\ jobSubscriptions' = jobSubscriptions
                   /\ unsub' = unsub
                   /\ csub'[c] = NoSub
          /\ (/\ cpc[c] = "RemoveJob125" /\ cpc'[c] # "RemoveJob125"
              /\ csub[c] = NoSub)
                => /\ ret' = Returned("RemoveJob", "NotFound", cjob[c])
                   /\ jobSubscriptions' = jobSubscriptions
                   /\ unsub' = unsub]_vars

\* RemoveJob has just returned not-found while the registry holds the entry
\* of another job
C5_Witness ==
    /\ ret.op = "RemoveJob" /\ ret.res = "NotFound"
    /\ RegistrySize(jobSubscriptions) > 0
    /\ jobSubscriptions[ret.job] = NoSub

C7_StopIdempotent ==
    [][/\ crashed' # "close"
       /\ \A e \in DOMAIN closed : closed[e] => closed'[e]
       /\ \A c \in Callers :
             /\ (cpc[c] = "Stop71" /\ cpc'[c] # "Stop71" /\ ~started)
                   => /\ ret' = Returned("Stop", "noop", NoJob)
                      /\ UNCHANGED << started, done, closed, crashed,
                                      jobSubscriptions, gauge, memory, wpc, wjob,
                                      wini, wseen, wnow, wreq, unsub, cb >>
             /\ (cpc[c] = "Stop71" /\ cpc'[c] # "Stop71" /\ started)
                   => /\ done # 0 /\ ~closed[done]
                      /\ closed' = [closed EXCEPT ![done] = TRUE]
                      /\ ~started']_vars

\* Stop has just returned from a tracker that an earlier Stop had stopped
C7_Witness ==
    /\ ret = Returned("Stop", "noop", NoJob)
    /\ done # 0 /\ closed[done]
    /\ crashed = "no"

\* the irita-log initiators a job declares, by position
Declared(job) == {i \in DOMAIN job.Initiators : job.Initiators[i].type = "iritalog"}

\* C8: an AddJob on a tracker that is not started spawns nothing and leaves
\* the registry and the subscriptions alone; on a started tracker it spawns
\* one goroutine for each irita-log initiator the job declares and no other.
C8_AddJob ==
    [][\A c \in Callers :
          (cpc[c] = "AddJob84" /\ cpc'[c] # "AddJob84")
             => LET job == JobSpec(cjob[c])
                    new == {w \in Workers : wpc[w] = "free" /\ wpc'[w] # "free"}
                IN /\ UNCHANGED << jobSubscriptions, gauge, unsub, cb >>
                   /\ \A w \in Workers \ new : wpc'[w] = wpc[w]
                   /\ IF ~started
                      THEN new = {} /\ ret'.res = "noop"
                      ELSE /\ Cardinality(new) = Cardinality(Declared(job))
                           /\ \A w \in new : wpc'[w] = "Subscribe159" /\ wjob'[w] = job.ID
                           /\ \A i \in Declared(job) :
                                 Cardinality({w \in new :
                                     InitiatorsFor(JobSpec(wjob'[w]))[wini'[w]]
                                         = job.Initiators[i]}) = 1]_vars

\* AddJob has just added the job of two initiators: two new goroutines
C8_Witness ==
    /\ ret = Returned("AddJob", "added", "j2")
    /\ Cardinality({w \in Workers : wjob[w] = "j2" /\ wpc[w] = "Subscribe159"}) >= 2

\* the request ids of the records of the batch that are of the type, the
\* service name and the provider of the initiator and carry a well-formed
\* list of ids
C9_Expected ==
    UNION { {mEvents[k].requests.elems[n] : n \in DOMAIN mEvents[k].requests.elems} :
              k \in {k \in DOMAIN mEvents :
                        /\ mEvents[k].type = "new_batch_request_provider"
                        /\ mEvents[k].service_name = mInitiator.IritaServiceName
                        /\ mEvents[k].provider = mInitiator.IritaServiceProvider
                        /\ mEvents[k].requests.valid
                        /\ \A n \in DOMAIN mEvents[k].requests.elems :
                              mEvents[k].requests.elems[n] # NumTok} }

\* C9: the ids GetServiceResquest looks up are exactly the ids of the
\* matching records with a well-formed list, each id once.
C9_MatchExact ==
    mpc = "returned"
        => /\ \A a, b \in DOMAIN mIds : a # b => mIds[a] # mIds[b]
           /\ {mIds[k] : k \in DOMAIN mIds} = C9_Expected

\* C10: after every step that registers a subscription and every step that
\* removes a registry entry the gauge is the size of the registry.
C10_GaugeIsSize ==
    [][(\/ \E w \in Workers : wpc[w] = "addSubscription135" /\ wpc'[w] = "select"
        \/ \E c \in Callers : cpc[c] = "RemoveJob120" /\ cpc'[c] = "RemoveJob125")
          => gauge' = RegistrySize(jobSubscriptions')]_vars

\* goroutine w takes the shutdown branch of its select in the step: it
\* issues an Unsubscribe that no RemoveJob issues
TakesDoneBranch(w) ==
    /\ wpc[w] = "select"
    /\ unsub'[w] # unsub[w]
    /\ \A c \in Callers : cpc[c] # "RemoveJob125"

\* C11: a goroutine that takes the shutdown branch of its loop unsubscribes
\* its subscription and leaves the loop in that step, and a goroutine that
\* has left the loop takes no further step.
C11_DoneBranchExits ==
    [][\A w \in Workers :
          /\ TakesDoneBranch(w) => (unsub[w] = "never" /\ wpc'[w] = "returned")
          /\ wpc[w] = "returned" => (wpc'[w] = "returned" /\ ~TakesDoneBranch(w))]_vars

\* the shutdown case of the select of goroutine w is ready whichever of the
\* channels made since it last looked it reads as s.done: all are closed
ShutdownReady(w) == \A e \in wseen[w]..done : e # 0 /\ closed[e]

\* C12: a goroutine at its select whose shutdown case is ready does not take
\* the request case: it starts no RunManager.Create in that iteration.
C12_ShutdownFirst ==
    [][\A w \in Workers :
          (wpc[w] = "select" /\ ShutdownReady(w))
             => ~(Consumes(w) /\ wpc'[w] = "Create185")]_vars

\* C13: whatever RunManager.Create returns, the goroutine that called it is
\* back at its select afterwards: a goroutine leaves its loop only from the
\* select, on a request outside the window or on shutdown.
C13_CreateFailureContinues ==
    [][\A w \in Workers :
          wpc'[w] = "returned" => wpc[w] \in {"select", "returned"}]_vars

\* C14: a goroutine that consumes a request inside the window of its job
\* starts one RunManager.Create for that request, its job and its initiator,
\* and consumes nothing more until the call is back; when the call succeeds
\* the request is put in the memory store in the same step and the goroutine
\* is back at its select, when it fails nothing is put; and nothing else
\* ever puts into the memory store.
C14_CreateOncePutOnSuccess ==
    [][/\ \A w \in Workers :
             /\ (Consumes(w) /\ ActiveAt(JobSpec(wjob[w]), now))
                   => /\ wpc[w] = "select" /\ wpc'[w] = "Create185"
                      /\ wreq'[w] = Head(cb[w])
                      /\ wjob'[w] = wjob[w] /\ wini'[w] = wini[w]
                      /\ memory' = memory
             /\ wpc[w] = "Create185"
                   => /\ ~Consumes(w)
                      /\ wjob'[w] = wjob[w] /\ wini'[w] = wini[w]
                      /\ \/ wpc'[w] = "Create185" /\ wreq'[w] = wreq[w]
                         \/ /\ wpc'[w] = "select"
                            /\ memory' = memory \cup {<< wjob[w], wreq[w] >>}
                         \/ wpc'[w] = "returned" /\ memory' = memory
       /\ memory' # memory
             => \E w \in Workers : wpc[w] = "Create185" /\ wpc'[w] = "select"]_vars

\* a goroutine of j1 has put a first request in the memory store and has then
\* returned inside the window of j1, on a failed Create
C14_Witness ==
    \E w \in Workers :
        /\ wpc[w] = "returned" /\ wjob[w] = "j1" /\ now = 1
        /\ << "j1", "r1" >> \in memory

\* C15: a callback that has requests left to send into the channel of its
\* goroutine gets to send them all and returns, as long as the process runs.
C15_CallbackReturns ==
    \A w \in 1..WindowWorkers :
        (cb[w] # << >> /\ Alive) ~> (cb[w] = << >> \/ ~Alive)

\* the ids GetServiceResquest looked up whose lookup succeeded, in order
C16_Resolved == SelectSeq(mIds, LAMBDA id : id \notin mFailing)

\* C16: the result of GetServiceResquest holds one response for each id
\* whose lookup succeeded, in the order of the ids, and nothing for an id
\* whose lookup failed.
C16_FailedLookupDropped ==
    mpc = "returned"
        => /\ Len(mOut) = Len(C16_Resolved)
           /\ \A k \in DOMAIN mOut : mOut[k] = C16_Resolved[k]

\* C17: a failure to open the subscription of one goroutine does not end the
\* process: the tracker, the other goroutines and the registry remain.
C17_OpenFailureIsLocal == crashed # "subscribe"

\* the tasks between the Lock and the Unlock of jobsMutex: a RemoveJob at its
\* lookup and delete, a goroutine at the map store of addSubscription
C18_InRegistrySection ==
    Cardinality({c \in Callers : cpc[c] = "RemoveJob120"})
        + Cardinality({w \in Workers : wpc[w] = "addSubscription135"})

\* C18: jobsMutex is held exactly while one task is at the registry map
\* between its Lock and its Unlock; no task holds it when it is in
\* SubscribeNewBlock, in Unsubscribe, in RunManager.Create or in the callback.
C18_LockOnlyAroundRegistry ==
    /\ jobsMutex => C18_InRegistrySection = 1
    /\ ~jobsMutex => C18_InRegistrySection = 0

\* RemoveJob holds jobsMutex while a goroutine is inside RunManager.Create
C18_Witness ==
    /\ jobsMutex
    /\ \E c \in Callers : cpc[c] = "RemoveJob120"
    /\ \E w \in Workers : wpc[w] = "Create185"

\* C19: Unsubscribe is called at most once on each subscription.
C19_UnsubscribeOnce == \A w \in Workers : unsub[w] # "again"

\* goroutine w was spawned for job j and has not yet stored its subscription
\* in the registry
C20_OnItsWay(w, j) ==
    /\ wjob[w] = j
    /\ wpc[w] \in {"Subscribe159", "addSubscription133", "addSubscription135"}

\* C20: with every goroutine spawned by an AddJob that has returned (the
\* store holds no job, and the one caller calls RemoveJob after its AddJob
\* is back), RemoveJob(J) does not return not-found while a goroutine of J
\* is still on its way to register a subscription for J.
C20_RemoveAfterAddTakesEffect ==
    [][(storedJobs = {} /\ ret'.op = "RemoveJob" /\ ret'.res = "NotFound")
          => ~\E w \in Workers : C20_OnItsWay(w, ret'.job)]_vars

====
